---- MODULE Spec2Model ----
(***************************************************************************)
(* A model of the OpenCode backend adapter of happy-cli:                   *)
(*   src/src/opencode/OpenCodeBackend.ts   class OpenCodeBackend           *)
(*   src/src/opencode/OpenCodeDisplay.tsx  class OpenCodeClient (l.131-315)*)
(*                                                                         *)
(* JavaScript values are tagged records, so that truthiness (the `||`      *)
(* chains of the normalizer) is computed as the language computes it.      *)
(* An object is a function from its own property names to values.          *)
(***************************************************************************)
EXTENDS Integers, Sequences, FiniteSets, TLC

----------------------------------------------------------------------------
(* Bounds of the model *)

\* properties a generated input record carries besides `type`
MaxFields == 2
\* records of one input sequence handed to the normalizer
MaxCalls == 2
\* sendPrompt calls made on one adapter
MaxSends == 2
\* lines one response stream delivers
MaxLines == 2
\* createSession requests made on one adapter
MaxSessions == 2
\* abort requests in flight at once
MaxAborts == 1
\* characters of a response stream
MaxChars == 4
\* callbacks subscribed to the push events
MaxCallbacks == 3
\* EventSources constructed
MaxOpens == 2
MaxClosures == 3

----------------------------------------------------------------------------
(* JavaScript values *)

Undefined == [undef |-> TRUE]
Null == [null |-> TRUE]
Str(s) == [str |-> s]
Num(n) == [num |-> n]
Arr(a) == [arr |-> a]
Obj(o) == [obj |-> o]

\* ToBoolean: the falsy values are undefined, null, "", 0 (and false, NaN)
Truthy(v) == v \notin {Undefined, Null, Str(""), Num(0)}

\* a || b
Or(a, b) == IF Truthy(a) THEN a ELSE b

\* data.k : reading a property of null or undefined throws (see Throws);
\* a property a value does not have reads as undefined
Prop(data, k) ==
  IF "obj" \in DOMAIN data /\ k \in DOMAIN data.obj THEN data.obj[k] ELSE Undefined

\* whether reading a property of `data` throws a TypeError
Throws(data) == data \in {Null, Undefined}

\* crypto.randomUUID(): the n-th identifier generated by the process
randomUUID(n) == Str("uuid-" \o ToString(n))

----------------------------------------------------------------------------
(* Canonical messages (AgentMessage) *)

StatusMsg(status) == [type |-> "status", status |-> status]
StatusError(detail) == [type |-> "status", status |-> "error", detail |-> detail]
ModelOutput(textDelta) == [type |-> "model-output", textDelta |-> textDelta]
ToolCall(toolName, args, callId) ==
  [type |-> "tool-call", toolName |-> toolName, args |-> args, callId |-> callId]
ToolResult(toolName, result, callId) ==
  [type |-> "tool-result", toolName |-> toolName, result |-> result, callId |-> callId]
FsEdit(description, diff, path) ==
  [type |-> "fs-edit", description |-> description, diff |-> diff, path |-> path]
TerminalOutput(data) == [type |-> "terminal-output", data |-> data]
PermissionRequest(id, reason, payload) ==
  [type |-> "permission-request", id |-> id, reason |-> reason, payload |-> payload]
PermissionResponse(id, approved) ==
  [type |-> "permission-response", id |-> id, approved |-> approved]

----------------------------------------------------------------------------
(* Listeners: the callbacks handed to onMessage.  What a callback does when *)
(* it is invoked is the caller's code; these are the behaviours modelled.   *)

\* callbacks that only record what they are given (runOpenCode's listener)
Listeners == {"L1", "L2"}
\* a callback that throws on every message
ThrowingListener == "Lthrow"
\* a callback that registers L2 when invoked, and one that deregisters L2
AddingListener == "Ladd"
RemovingListener == "Ldel"

\* Set.prototype.add / delete on the insertion-ordered handler set
SetAdd(hs, l) == IF \E i \in DOMAIN hs : hs[i] = l THEN hs ELSE Append(hs, l)
SetDelete(hs, l) == SelectSeq(hs, LAMBDA x : x # l)

\* the handler set after callback l has run
AfterCallback(hs, l) ==
  CASE l = AddingListener -> SetAdd(hs, "L2")
    [] l = RemovingListener -> SetDelete(hs, "L2")
    [] OTHER -> hs

\* for (const handler of this.messageHandlers) handler(message):
\* a Set iterator visits entries added during the iteration, skips entries
\* deleted before they are reached, and an exception ends the loop
RECURSIVE emitLoop(_, _, _, _)
emitLoop(hs, i, message, acc) ==
  IF i > Len(hs) THEN [handlers |-> hs, delivered |-> acc, threw |-> FALSE]
  ELSE LET l == hs[i]
           got == Append(acc, [to |-> l, msg |-> message])
           hs2 == AfterCallback(hs, l)
           \* entries up to and including position i that are still in the set
           kept == Cardinality({j \in 1..i : \E k \in DOMAIN hs2 : hs2[k] = hs[j]})
       IN IF l = ThrowingListener
          THEN [handlers |-> hs, delivered |-> got, threw |-> TRUE]
          ELSE emitLoop(hs2, kept + 1, message, got)

\* One synchronous run of adapter code: the handler set and the identifier
\* counter it works on, the messages it passed to emit, the deliveries made,
\* and whether an exception is propagating.
Run(hs, uuids) ==
  [handlers |-> hs, uuids |-> uuids, emitted |-> <<>>, delivered |-> <<>>,
   threw |-> FALSE]

emit(r, message) ==
  IF r.threw THEN r
  ELSE LET w == emitLoop(r.handlers, 1, message, <<>>)
       IN [r EXCEPT !.handlers = w.handlers,
                    !.emitted = Append(@, message),
                    !.delivered = @ \o w.delivered,
                    !.threw = w.threw]

----------------------------------------------------------------------------
(* The normalizer: OpenCodeBackend.processOpenCodeData *)

\* a switch that lacks the hyphenated label of the tool call
switchCaseNoHyphen(eventType) ==
  CASE eventType \in {Str("text"), Str("token"), Str("content")} -> "model-output"
    [] eventType = Str("tool_call") -> "tool-call"
    [] eventType \in {Str("tool_result"), Str("tool-result")} -> "tool-result"
    [] eventType \in {Str("file_edit"), Str("fs-edit")} -> "fs-edit"
    [] eventType \in {Str("terminal"), Str("terminal-output")} -> "terminal-output"
    [] eventType \in {Str("permission_request"), Str("permission-request")}
         -> "permission-request"
    [] eventType = Str("error") -> "error"
    [] eventType \in {Str("done"), Str("complete"), Str("finished")} -> "idle"
    [] OTHER -> "default"

\* the case labels of `switch (eventType)`; strict equality, so only a string
\* spelled exactly as a label selects its branch
switchCase(eventType) ==
  CASE eventType \in {Str("text"), Str("token"), Str("content")} -> "model-output"
    [] eventType \in {Str("tool_call"), Str("tool-call")} -> "tool-call"
    [] eventType \in {Str("tool_result"), Str("tool-result")} -> "tool-result"
    [] eventType \in {Str("file_edit"), Str("fs-edit")} -> "fs-edit"
    [] eventType \in {Str("terminal"), Str("terminal-output")} -> "terminal-output"
    [] eventType \in {Str("permission_request"), Str("permission-request")}
         -> "permission-request"
    [] eventType = Str("error") -> "error"
    [] eventType \in {Str("done"), Str("complete"), Str("finished")} -> "idle"
    [] OTHER -> "default"

textDeltaOf(data) ==
  Or(Or(Prop(data, "content"), Prop(data, "text")), Prop(data, "delta"))
toolNameOf(data) ==
  Or(Or(Prop(data, "name"), Prop(data, "toolName")), Str("unknown"))
argsOf(data) ==
  Or(Or(Prop(data, "arguments"), Prop(data, "args")), Obj(<<>>))
\* data.id || data.callId, before the fallback
givenCallId(data) == Or(Prop(data, "id"), Prop(data, "callId"))
\* the fallback of a tool call: crypto.randomUUID() is called only when
\* neither id nor callId is truthy
\* a fallback that is the empty string, as the tool result's is
toolCallFallbackEmpty(uuids) == Str("")
toolCallFallback(uuids) == randomUUID(uuids + 1)
toolCallUuids(data, uuids) ==
  IF Truthy(givenCallId(data)) THEN uuids ELSE uuids + 1
resultOf(data) == Or(Prop(data, "result"), Prop(data, "output"))
toolResultCallId(data) == Or(givenCallId(data), Str(""))
descriptionOf(data) ==
  Or(Or(Prop(data, "description"), Prop(data, "summary")), Str(""))
terminalDataOf(data) == Or(Or(Prop(data, "output"), Prop(data, "data")), Str(""))
reasonOf(data) == Or(Or(Prop(data, "reason"), Prop(data, "message")), Str(""))
payloadOf(data) == Or(Prop(data, "payload"), data)
\* a detail that never looks at the record
errorDetailUnknown(data) == Str("Unknown error")
errorDetailOf(data) ==
  Or(Or(Prop(data, "message"), Prop(data, "error")), Str("Unknown error"))
\* a default branch that looks at content only
defaultTextContentOnly(data) == Prop(data, "content")
defaultTextOf(data) == Or(Prop(data, "text"), Prop(data, "content"))

processOpenCodeData(r, data) ==
  IF r.threw THEN r
  ELSE IF Throws(data) THEN [r EXCEPT !.threw = TRUE]
  ELSE LET branch == switchCase(Prop(data, "type")) IN
    CASE branch = "model-output" -> emit(r, ModelOutput(textDeltaOf(data)))
      [] branch = "tool-call" ->
           emit([r EXCEPT !.uuids = toolCallUuids(data, r.uuids)],
                ToolCall(toolNameOf(data), argsOf(data),
                         Or(givenCallId(data), toolCallFallback(r.uuids))))
      [] branch = "tool-result" ->
           emit(r, ToolResult(toolNameOf(data), resultOf(data),
                              toolResultCallId(data)))
      [] branch = "fs-edit" ->
           emit(r, FsEdit(descriptionOf(data), Prop(data, "diff"),
                          Prop(data, "path")))
      [] branch = "terminal-output" -> emit(r, TerminalOutput(terminalDataOf(data)))
      [] branch = "permission-request" ->
           emit([r EXCEPT !.uuids = IF Truthy(Prop(data, "id")) THEN @ ELSE @ + 1],
                PermissionRequest(Or(Prop(data, "id"), randomUUID(r.uuids + 1)),
                                  reasonOf(data), payloadOf(data)))
      [] branch = "error" -> emit(r, StatusError(errorDetailOf(data)))
      [] branch = "idle" -> emit(r, StatusMsg("idle"))
      [] OTHER -> IF Truthy(defaultTextOf(data))
                  THEN emit(r, ModelOutput(defaultTextOf(data)))
                  ELSE r

----------------------------------------------------------------------------
(* Stream lines.  A line is the text handed to onChunk; JSON.parse and      *)
(* String.prototype.trim are given by their results on the lines used.      *)

HiLine == "{\"type\":\"text\",\"content\":\"Hi\"}"
DoneLine == "{\"type\":\"done\"}"
ErrorLine == "{\"type\":\"error\",\"message\":\"boom\"}"
ErrorFieldLine == "{\"type\":\"error\",\"error\":\"bad\"}"
BareErrorLine == "{\"type\":\"error\"}"
ToolCallLine == "{\"type\":\"tool_call\",\"name\":\"ls\"}"
PaddedDoneLine == "  {\"type\":\"done\"} "
NoteLine == "{\"note\":\"x\"}"
NullLine == "null"
NumberLine == "42"
QuotedLine == "\"hi\""
ArrayLine == "[]"
PlainLine == "hello"
PaddedPlainLine == "  two words "
TruncatedLine == "{\"type\":\"text\""
SingleQuoteLine == "{'type':'done'}"
SseLine == "data: {\"type\":\"done\"}"
EmptyLine == ""
SpacesLine == "   "
TabLine == "\t"

JsonLines ==
  {HiLine, DoneLine, ErrorLine, ErrorFieldLine, BareErrorLine, ToolCallLine,
   PaddedDoneLine, NoteLine,
   NullLine, NumberLine, QuotedLine, ArrayLine}
BlankLines == {EmptyLine, SpacesLine, TabLine}
TextLines == {PlainLine, PaddedPlainLine, TruncatedLine, SingleQuoteLine, SseLine}
Lines == JsonLines \cup BlankLines \cup TextLines

\* JSON.parse(chunk): ok is FALSE where it throws a SyntaxError
JSONparse(chunk) ==
  CASE chunk = HiLine ->
         [ok |-> TRUE, value |-> Obj([type |-> Str("text"), content |-> Str("Hi")])]
    [] chunk \in {DoneLine, PaddedDoneLine} ->
         [ok |-> TRUE, value |-> Obj([type |-> Str("done")])]
    [] chunk = ErrorLine ->
         [ok |-> TRUE, value |-> Obj([type |-> Str("error"), message |-> Str("boom")])]
    [] chunk = ErrorFieldLine ->
         [ok |-> TRUE, value |-> Obj([type |-> Str("error"), error |-> Str("bad")])]
    [] chunk = BareErrorLine -> [ok |-> TRUE, value |-> Obj([type |-> Str("error")])]
    [] chunk = ToolCallLine ->
         [ok |-> TRUE, value |-> Obj([type |-> Str("tool_call"), name |-> Str("ls")])]
    [] chunk = NoteLine -> [ok |-> TRUE, value |-> Obj([note |-> Str("x")])]
    [] chunk = NullLine -> [ok |-> TRUE, value |-> Null]
    [] chunk = NumberLine -> [ok |-> TRUE, value |-> Num(42)]
    [] chunk = QuotedLine -> [ok |-> TRUE, value |-> Str("hi")]
    [] chunk = ArrayLine -> [ok |-> TRUE, value |-> Arr(<<>>)]
    [] OTHER -> [ok |-> FALSE, value |-> Undefined]

\* chunk.trim()
trim(chunk) ==
  CASE chunk \in BlankLines -> ""
    [] chunk = PaddedPlainLine -> "two words"
    [] chunk = PaddedDoneLine -> DoneLine
    [] OTHER -> chunk

\* a test that forgets to trim
nonBlankUntrimmed(chunk) == Truthy(Str(chunk))
\* if (chunk.trim()): the empty string is falsy
nonBlank(chunk) == Truthy(Str(trim(chunk)))

\* OpenCodeBackend.handleStreamChunk: everything thrown inside the try block
\* (by JSON.parse, by the normalizer, by a listener) reaches the catch
handleStreamChunk(r, chunk) ==
  IF r.threw THEN r
  ELSE LET parsed == JSONparse(chunk)
           tried == IF parsed.ok THEN processOpenCodeData(r, parsed.value)
                    ELSE [r EXCEPT !.threw = TRUE]
           caught == [tried EXCEPT !.threw = FALSE]
       IN IF ~tried.threw THEN tried
          ELSE IF nonBlank(chunk) THEN emit(caught, ModelOutput(Str(chunk)))
          ELSE caught

----------------------------------------------------------------------------
(* State *)

VARIABLES
  \* OpenCodeBackend
  messageHandlers,    \* Set<AgentMessageHandler>, in insertion order
  currentSessionId,   \* Null or the session id
  eventUnsubscribe,   \* 0 (null) or n: the closure that removes callback n
  responseComplete,   \* 0 (null) or the promise created by send n
  responseResolve,    \* 0 (null) or the resolver of the promise of send n
  \* OpenCodeClient
  eventSource,        \* TRUE while an EventSource is held
  eventHandlers,      \* Set of subscribed callbacks, in insertion order
  buffer,             \* sendMessage's buffer: the text read and not yet split off
  \* the runtime and the remote server
  eventSourceDefined, \* whether the runtime provides EventSource
  uuidCount,          \* identifiers crypto.randomUUID() has produced
  sessionsCreated,    \* sessions the server has created
  creating,           \* createSession requests in flight
  aborting,           \* abort requests in flight
  sends,              \* the sendPrompt calls made, in call order
  settled,            \* promises that have been resolved
  waiter,             \* the waitForResponseComplete call being observed
  \* observation
  last,               \* the step just taken: operation, emissions, deliveries
  observed,           \* the latest sendPrompt call: lines, emissions, audience
  disposeRun,         \* dispose calls made in a row, most recently (up to 2)
  disposed,           \* whether dispose has been called
  opens,              \* the EventSources constructed so far
  closures,           \* the unsubscribe closures returned to direct callers
  reading,            \* of the response stream: the text read, the reads made
  \* the normalizer and the chunk handler applied on their own
  queue,              \* inputs still to be handed over
  processed           \* inputs handed over, each with what it produced

backendVars ==
  <<messageHandlers, currentSessionId, eventUnsubscribe, responseComplete,
    responseResolve>>
clientVars == <<eventSource, eventHandlers>>
envVars == <<uuidCount, sessionsCreated, creating, aborting, sends, settled, waiter>>
normVars == <<queue, processed>>
splitVars == <<buffer, reading>>
runtimeVars == <<eventSourceDefined, opens, closures>>
vars ==
  <<backendVars, clientVars, envVars, last, observed, disposeRun, disposed,
    normVars, splitVars, runtimeVars>>

sessionIdOf(n) == Str("ses-" \o ToString(n))

\* The waitForResponseComplete call observed: its outcome so far (st), the
\* promise it races against the timer (p, 0 if it returned at once), and what
\* it met when it was called: the sends made (sent), whether none was in
\* flight (idle), whether none had failed (clean); lapsed is the promise of
\* the latest call that timed out.
NoWaiter ==
  [st |-> "none", p |-> 0, sent |-> 0, idle |-> TRUE, clean |-> TRUE, lapsed |-> 0]

\* nothing read of a response stream yet: the text read so far, as the
\* sequence of its characters, the reads made, whether the stream has ended
NothingRead == [content |-> <<>>, reads |-> 0, done |-> FALSE]

\* of the latest sendPrompt call: the lines its stream delivered, the
\* messages the call emitted, the listeners that were handed every one, and
\* the lines it had got when cancel was last called during it (-1: never)
NothingObserved == [got |-> <<>>, log |-> <<>>, heard |-> {}, cancelAt |-> -1]

\* the record of a step: the operation, its argument where the claims need
\* it, what the run emitted and delivered, and whether it ended by throwing
StepOn(op, arg, r) ==
  [op |-> op, arg |-> arg, emitted |-> r.emitted, delivered |-> r.delivered,
   threw |-> r.threw]
Step(op, r) == StepOn(op, Undefined, r)

Init ==
  /\ messageHandlers = <<>>
  /\ currentSessionId = Null
  /\ eventUnsubscribe = 0
  /\ responseComplete = 0
  /\ responseResolve = 0
  /\ eventSource = FALSE
  /\ eventHandlers = <<>>
  /\ uuidCount = 0
  /\ sessionsCreated = 0
  /\ creating = 0
  /\ aborting = 0
  /\ sends = <<>>
  /\ settled = {}
  /\ waiter = NoWaiter
  /\ last = Step("new", Run(<<>>, 0))
  /\ observed = NothingObserved
  /\ disposeRun = 0
  /\ disposed = FALSE
  /\ queue = <<>>
  /\ processed = <<>>
  /\ buffer = <<>>
  /\ reading = NothingRead
  /\ eventSourceDefined \in BOOLEAN
  /\ opens = 0
  /\ closures = <<>>

----------------------------------------------------------------------------
(* OpenCodeClient: the push connection and the abort request *)

\* a connectToEvents that constructs an EventSource for every subscriber
connectToEventsAnew(c, onEvent) ==
  [source |-> c.source \/ eventSourceDefined,
   handlers |-> SetAdd(c.handlers, onEvent),
   opened |-> eventSourceDefined]
\* a connectToEvents that opens the connection and forgets the callback
connectToEventsForgetful(c, onEvent) ==
  [source |-> IF ~c.source /\ eventSourceDefined THEN TRUE ELSE c.source,
   handlers |-> c.handlers,
   opened |-> ~c.source /\ eventSourceDefined]
\* connectToEvents(onEvent), with c = [source, handlers] the client's fields;
\* opened: whether the call constructed an EventSource
connectToEvents(c, onEvent) ==
  [source |-> IF ~c.source /\ eventSourceDefined THEN TRUE ELSE c.source,
   handlers |-> SetAdd(c.handlers, onEvent),
   opened |-> ~c.source /\ eventSourceDefined]

\* the closure connectToEvents(onEvent) returned, when it is called
unsubscribe(c, onEvent) ==
  LET hs == SetDelete(c.handlers, onEvent)
  IN [source |-> IF Len(hs) = 0 /\ c.source THEN FALSE ELSE c.source,
      handlers |-> hs]

\* a disconnect that closes the EventSource without testing that it holds one
disconnectUnguarded(c) ==
  [source |-> FALSE, handlers |-> IF c.source THEN <<>> ELSE c.handlers,
   threw |-> ~c.source]
\* disconnect(): closes the EventSource if one is held, clears the subscribers
disconnect(c) == [source |-> FALSE, handlers |-> <<>>, threw |-> FALSE]

\* response.ok
ResponseOk(status) == status >= 200 /\ status <= 299

\* a test that takes 404 for a failure like any other
abortThrowsOn404(status) == ~ResponseOk(status)

\* abortSession: if (!response.ok && response.status !== 404) throw
abortThrows(status) == ~ResponseOk(status) /\ status # 404

\* the statuses the server answers an abort with
AbortStatuses == {200, 204, 404, 409, 500}

----------------------------------------------------------------------------
(* OpenCodeBackend *)

\* a filter that lets every event pass
otherSessionNever(event, current) == FALSE
\* handleOpenCodeEvent: if (event.sessionId && event.sessionId !== current) return
otherSession(event, current) ==
  Truthy(Prop(event, "sessionId")) /\ Prop(event, "sessionId") # current

handleOpenCodeEvent(r, event, current) ==
  IF r.threw \/ otherSession(event, current) THEN r
  ELSE processOpenCodeData(r, event)

\* eventSource.onmessage: the parsed event goes to every subscribed callback
\* (each calls handleOpenCodeEvent); the try block swallows what they throw
RECURSIVE fanOut(_, _, _, _)
fanOut(r, n, event, current) ==
  IF n = 0 THEN r
  ELSE fanOut(handleOpenCodeEvent(r, event, current), n - 1, event, current)

onmessage(r, subscribers, event, current) ==
  [fanOut(r, Len(subscribers), event, current) EXCEPT !.threw = FALSE]

\* the listeners that were handed every message the run emitted
HeardAll(r) ==
  {l \in Listeners :
     Cardinality({i \in DOMAIN r.delivered : r.delivered[i].to = l}) = Len(r.emitted)}

\* a send is "stream" while sendPrompt awaits client.sendMessage (the request,
\* then the reads of the response stream), then "done" or "failed"
InFlight(send) == send.st = "stream"

\* the effect of a run on the handler set, the identifier counter and `last`
Ran(op, r) ==
  /\ messageHandlers' = r.handlers
  /\ uuidCount' = r.uuids
  /\ last' = Step(op, r)

\* sendPrompt up to its await: a new promise and its resolver, run r being
\* the run that has emitted status(running)
NewSend(r) ==
  [st |-> IF r.threw THEN "failed" ELSE "stream",
   lines |-> 0,
   solo |-> \A i \in DOMAIN sends : ~InFlight(sends[i])]

sendPromptBegins(r) ==
  /\ Len(sends) < MaxSends
  /\ responseComplete' = Len(sends) + 1
  /\ responseResolve' = Len(sends) + 1
  /\ sends' = Append([i \in DOMAIN sends |->
                        IF InFlight(sends[i]) THEN [sends[i] EXCEPT !.solo = FALSE]
                        ELSE sends[i]],
                     NewSend(r))
  /\ observed' = [got |-> <<>>, log |-> r.emitted, heard |-> HeardAll(r),
                  cancelAt |-> -1]

\* send s, when it is the latest, is observed as its run r ends
Observe(s, line, r) ==
  observed' = IF s = Len(sends)
              THEN [observed EXCEPT !.got = @ \o line,
                                    !.log = @ \o r.emitted,
                                    !.heard = @ \cap HeardAll(r)]
              ELSE observed

\* onMessage(handler)
onMessage(l) ==
  /\ messageHandlers' = SetAdd(messageHandlers, l)
  /\ last' = Step("onMessage", Run(messageHandlers', uuidCount))
  /\ disposeRun' = 0
  /\ UNCHANGED disposed
  /\ UNCHANGED <<currentSessionId, eventUnsubscribe, responseComplete,
                 responseResolve, clientVars, envVars, observed, normVars, splitVars,
                 runtimeVars>>

\* offMessage(handler)
offMessage(l) ==
  /\ messageHandlers' = SetDelete(messageHandlers, l)
  /\ last' = Step("offMessage", Run(messageHandlers', uuidCount))
  /\ disposeRun' = 0
  /\ UNCHANGED disposed
  /\ UNCHANGED <<currentSessionId, eventUnsubscribe, responseComplete,
                 responseResolve, clientVars, envVars, observed, normVars, splitVars,
                 runtimeVars>>

\* startSession is called: the createSession request goes out
startSession ==
  /\ sessionsCreated + creating < MaxSessions
  /\ creating' = creating + 1
  /\ last' = Step("startSession", Run(messageHandlers, uuidCount))
  /\ disposeRun' = 0
  /\ UNCHANGED disposed
  /\ UNCHANGED <<backendVars, clientVars, uuidCount, sessionsCreated, aborting,
                 sends, settled, waiter, observed, normVars, splitVars,
                 runtimeVars>>

\* createSession fails (a non-ok response): startSession rejects at its
\* first await
createSessionFails ==
  /\ creating > 0
  /\ creating' = creating - 1
  /\ last' = [Step("startSession-failed", Run(messageHandlers, uuidCount))
                EXCEPT !.threw = TRUE]
  /\ disposeRun' = 0
  /\ UNCHANGED disposed
  /\ UNCHANGED <<backendVars, clientVars, uuidCount, sessionsCreated, aborting,
                 sends, settled, waiter, observed, normVars, splitVars,
                 runtimeVars>>

\* createSession answers: startSession stores the id, subscribes a new
\* callback, emits status(running) and, given an initial prompt, runs
\* sendPrompt up to its await
createSessionReturns(initialPrompt) ==
  /\ creating > 0
  /\ initialPrompt => Len(sends) < MaxSends
  /\ creating' = creating - 1
  /\ sessionsCreated' = sessionsCreated + 1
  /\ currentSessionId' = sessionIdOf(sessionsCreated + 1)
  /\ LET onEvent == sessionsCreated + 1
         c == connectToEvents([source |-> eventSource, handlers |-> eventHandlers],
                              onEvent)
         started == emit(Run(messageHandlers, uuidCount), StatusMsg("running"))
         prompted == initialPrompt /\ ~started.threw
         r == IF prompted THEN emit(started, StatusMsg("running")) ELSE started
     IN /\ eventUnsubscribe' = onEvent
        /\ eventSource' = c.source
        /\ eventHandlers' = c.handlers
        /\ opens' = IF c.opened THEN opens + 1 ELSE opens
        /\ Ran("startSession-created", r)
        /\ IF prompted
           THEN sendPromptBegins(emit([started EXCEPT !.emitted = <<>>,
                                                      !.delivered = <<>>],
                                      StatusMsg("running")))
           ELSE UNCHANGED <<responseComplete, responseResolve, sends, observed>>
  /\ disposeRun' = 0
  /\ UNCHANGED disposed
  /\ UNCHANGED <<aborting, settled, waiter, normVars, splitVars,
                 eventSourceDefined, closures>>

\* sendPrompt(sessionId, prompt) up to the await of client.sendMessage
sendPrompt ==
  /\ LET r == emit(Run(messageHandlers, uuidCount), StatusMsg("running"))
     IN /\ Ran("sendPrompt", r)
        /\ sendPromptBegins(r)
  /\ disposeRun' = 0
  /\ UNCHANGED disposed
  /\ UNCHANGED <<currentSessionId, eventUnsubscribe, clientVars, sessionsCreated,
                 creating, aborting, settled, waiter, normVars, splitVars,
                 runtimeVars>>

\* sendMessage throws: the response is not ok or has no body, or a read of
\* the stream fails; sendPrompt rejects where it awaits
sendMessageThrows(s) ==
  /\ s \in DOMAIN sends
  /\ InFlight(sends[s])
  /\ sends' = [sends EXCEPT ![s].st = "failed"]
  /\ last' = [Step("sendMessage-failed", Run(messageHandlers, uuidCount))
                EXCEPT !.threw = TRUE]
  /\ disposeRun' = 0
  /\ UNCHANGED disposed
  /\ UNCHANGED <<backendVars, clientVars, uuidCount, sessionsCreated, creating,
                 aborting, settled, waiter, observed, normVars, splitVars,
                 runtimeVars>>

\* the lines the server of the model sends; sendMessage hands over only
\* lines that are not blank
StreamLines == {HiLine, DoneLine}

\* a line of the stream of send s arrives: onChunk(line)
onChunk(s, line) ==
  /\ s \in DOMAIN sends
  /\ sends[s].st = "stream"
  /\ sends[s].lines < MaxLines
  /\ LET r == handleStreamChunk(Run(messageHandlers, uuidCount), line)
     IN /\ messageHandlers' = r.handlers
        /\ uuidCount' = r.uuids
        /\ last' = StepOn("onChunk", Str(line), r)
        /\ sends' = [sends EXCEPT ![s].st = IF r.threw THEN "failed" ELSE @,
                                  ![s].lines = @ + 1]
        /\ Observe(s, <<line>>, r)
  /\ disposeRun' = 0
  /\ UNCHANGED disposed
  /\ UNCHANGED <<currentSessionId, eventUnsubscribe, responseComplete,
                 responseResolve, clientVars, sessionsCreated, creating, aborting,
                 settled, waiter, normVars, splitVars,
                 runtimeVars>>

\* a sendPrompt that never calls the resolver
resolvesNever(resolver) == FALSE
\* whether sendPrompt calls the resolver it finds after the stream has ended
resolves(resolver) == resolver # 0

\* the stream of send s ends: sendMessage returns, sendPrompt emits
\* status(idle) and calls the resolver that is stored, if one is
streamEnds(s) ==
  /\ s \in DOMAIN sends
  /\ sends[s].st = "stream"
  /\ LET r == emit(Run(messageHandlers, uuidCount), StatusMsg("idle"))
         done == ~r.threw /\ resolves(responseResolve)
     IN /\ Ran("sendPrompt-returns", r)
        /\ sends' = [sends EXCEPT ![s].st = IF r.threw THEN "failed" ELSE "done"]
        /\ Observe(s, <<>>, r)
        /\ settled' = IF done THEN settled \cup {responseResolve} ELSE settled
        /\ responseResolve' = IF done THEN 0 ELSE responseResolve
        \* Promise.race: a waiter of the promise resolves with it
        /\ waiter' = IF done /\ waiter.st = "waiting" /\ waiter.p = responseResolve
                     THEN [waiter EXCEPT !.st = "resolved"]
                     ELSE waiter
  /\ disposeRun' = 0
  /\ UNCHANGED disposed
  /\ UNCHANGED <<currentSessionId, eventUnsubscribe, responseComplete, clientVars,
                 sessionsCreated, creating, aborting, normVars, splitVars,
                 runtimeVars>>

\* a test that is inverted
nothingPendingInverted(pending) == pending # 0
\* if (!this.responseComplete) return
nothingPending(pending) == pending = 0

\* a race that is not awaited
raceNotAwaited(pending, resolved) == "resolved"
\* await Promise.race([this.responseComplete, timeout]): a promise that is
\* resolved already wins at once, the timer cannot fire before
race(pending, resolved) == IF pending \in resolved THEN "resolved" ELSE "waiting"

\* waitForResponseComplete(timeoutMs) is called
waitForResponseComplete ==
  /\ waiter.st # "waiting"
  /\ waiter' =
       [st |-> IF nothingPending(responseComplete) THEN "resolved"
               ELSE race(responseComplete, settled),
        p |-> IF nothingPending(responseComplete) THEN 0 ELSE responseComplete,
        sent |-> Len(sends),
        idle |-> \A i \in DOMAIN sends : ~InFlight(sends[i]),
        clean |-> \A i \in DOMAIN sends : sends[i].st # "failed",
        lapsed |-> waiter.lapsed]
  /\ last' = Step("waitForResponseComplete", Run(messageHandlers, uuidCount))
  /\ disposeRun' = 0
  /\ UNCHANGED disposed
  /\ UNCHANGED <<backendVars, clientVars, uuidCount, sessionsCreated, creating,
                 aborting, sends, settled, observed, normVars, splitVars,
                 runtimeVars>>

\* timeoutMs have passed: the timer rejects the race that is still undecided
timeout ==
  /\ waiter.st = "waiting"
  /\ waiter' = [waiter EXCEPT !.st = "timeout", !.lapsed = waiter.p]
  /\ last' = Step("timeout", Run(messageHandlers, uuidCount))
  /\ disposeRun' = 0
  /\ UNCHANGED disposed
  /\ UNCHANGED <<backendVars, clientVars, uuidCount, sessionsCreated, creating,
                 aborting, sends, settled, observed, normVars, splitVars,
                 runtimeVars>>

\* cancel(sessionId) is called: the abort request goes out
cancel ==
  /\ aborting < MaxAborts
  /\ aborting' = aborting + 1
  /\ last' = Step("cancel", Run(messageHandlers, uuidCount))
  /\ observed' = IF sends # <<>> /\ InFlight(sends[Len(sends)])
                 THEN [observed EXCEPT !.cancelAt = Len(observed.got)]
                 ELSE observed
  /\ disposeRun' = 0
  /\ UNCHANGED disposed
  /\ UNCHANGED <<backendVars, clientVars, uuidCount, sessionsCreated, creating,
                 sends, settled, waiter, normVars, splitVars, runtimeVars>>

\* the abort request is answered: abortSession throws or returns, and
\* cancel then emits status(idle)
abortSessionReturns(status) ==
  /\ aborting > 0
  /\ aborting' = aborting - 1
  /\ LET r0 == Run(messageHandlers, uuidCount)
         r == IF abortThrows(status) THEN [r0 EXCEPT !.threw = TRUE]
              ELSE emit(r0, StatusMsg("idle"))
     IN /\ messageHandlers' = r.handlers
        /\ last' = StepOn("cancel-returns", Num(status), r)
  /\ disposeRun' = 0
  /\ UNCHANGED disposed
  /\ UNCHANGED <<currentSessionId, eventUnsubscribe, responseComplete,
                 responseResolve, clientVars, uuidCount, sessionsCreated, creating,
                 sends, settled, waiter, observed, normVars, splitVars,
                 runtimeVars>>

\* the push events of the model: a text event for no session, for the empty
\* session id, for a session of this adapter, for a session of another client
PushSessionIds ==
  {Undefined, Str(""), Str("ses-other")} \cup {sessionIdOf(n) : n \in 1..MaxSessions}

PushEvent(sid) ==
  IF sid = Undefined THEN Obj([type |-> Str("text"), content |-> Str("pushed")])
  ELSE Obj([type |-> Str("text"), content |-> Str("pushed"), sessionId |-> sid])

\* the push connection delivers an event
pushEvent(sid) ==
  /\ eventSource
  /\ LET r == onmessage(Run(messageHandlers, uuidCount), eventHandlers,
                        PushEvent(sid), currentSessionId)
     IN /\ messageHandlers' = r.handlers
        /\ uuidCount' = r.uuids
        /\ last' = StepOn("push", sid, r)
  /\ disposeRun' = 0
  /\ UNCHANGED disposed
  /\ UNCHANGED <<currentSessionId, eventUnsubscribe, responseComplete,
                 responseResolve, clientVars, sessionsCreated, creating, aborting,
                 sends, settled, waiter, observed, normVars, splitVars,
                 runtimeVars>>

\* dispose(): what disconnect throws ends it before the listeners are
\* cleared and status(stopped) is emitted
dispose ==
  /\ LET c0 == [source |-> eventSource, handlers |-> eventHandlers]
         c1 == IF eventUnsubscribe # 0 THEN unsubscribe(c0, eventUnsubscribe) ELSE c0
         c2 == disconnect(c1)
         r0 == Run(messageHandlers, uuidCount)
         r == IF c2.threw THEN [r0 EXCEPT !.threw = TRUE]
              ELSE emit([r0 EXCEPT !.handlers = <<>>], StatusMsg("stopped"))
     IN /\ eventUnsubscribe' = 0
        /\ eventSource' = c2.source
        /\ eventHandlers' = c2.handlers
        /\ Ran("dispose", r)
  /\ disposeRun' = IF disposeRun = 0 THEN 1 ELSE 2
  /\ disposed' = TRUE
  /\ UNCHANGED <<currentSessionId, responseComplete, responseResolve,
                 sessionsCreated, creating, aborting, sends, settled, waiter,
                 observed, normVars, splitVars,
                 runtimeVars>>

\* Sessions, listeners, push events, cancel and dispose: a caller that starts
\* sessions without an initial prompt and sends none.
Next ==
  \/ \E l \in Listeners : onMessage(l)
  \/ \E l \in Listeners : offMessage(l)
  \/ startSession
  \/ createSessionFails
  \/ createSessionReturns(FALSE)
  \/ cancel
  \/ \E status \in AbortStatuses : abortSessionReturns(status)
  \/ \E sid \in PushSessionIds : pushEvent(sid)
  \/ dispose

\* Prompts and their completion: a caller that registers its listeners, then
\* starts one session with or without an initial prompt, and once it has the
\* session sends prompts (not waiting for one to return before the next) and
\* waits for completion.
NextSend ==
  \/ \E l \in Listeners :
       /\ sessionsCreated + creating = 0
       /\ l = "L1" \/ messageHandlers # <<>>
       /\ onMessage(l)
  \/ (sessionsCreated + creating = 0 /\ startSession)
  \/ \E initialPrompt \in BOOLEAN : createSessionReturns(initialPrompt)
  \/ (currentSessionId # Null /\ sendPrompt)
  \/ \E s \in 1..MaxSends : sendMessageThrows(s)
  \/ \E s \in 1..MaxSends : \E line \in StreamLines : onChunk(s, line)
  \/ \E s \in 1..MaxSends : streamEnds(s)
  \/ waitForResponseComplete
  \/ timeout

\* the error lines of a stream
ErrorLines == {ErrorLine, ErrorFieldLine, BareErrorLine}

\* the push connection delivers an error event that names no session
pushError(line) ==
  /\ eventSource
  /\ LET r == onmessage(Run(messageHandlers, uuidCount), eventHandlers,
                        JSONparse(line).value, currentSessionId)
     IN /\ messageHandlers' = r.handlers
        /\ uuidCount' = r.uuids
        /\ last' = StepOn("push-error", Str(line), r)
  /\ disposeRun' = 0
  /\ UNCHANGED disposed
  /\ UNCHANGED <<currentSessionId, eventUnsubscribe, responseComplete,
                 responseResolve, clientVars, sessionsCreated, creating, aborting,
                 sends, settled, waiter, observed, normVars, splitVars,
                 runtimeVars>>

\* A caller that registers a listener, starts a session and sends prompts
\* whose streams deliver error lines, while error events are pushed.
NextError ==
  \/ (sessionsCreated + creating = 0 /\ onMessage("L1"))
  \/ (sessionsCreated + creating = 0 /\ startSession)
  \/ createSessionReturns(FALSE)
  \/ (currentSessionId # Null /\ sendPrompt)
  \/ \E s \in 1..MaxSends : \E line \in ErrorLines : onChunk(s, line)
  \/ \E s \in 1..MaxSends : streamEnds(s)
  \/ \E line \in ErrorLines : pushError(line)
  \/ ((\A i \in DOMAIN sends : ~InFlight(sends[i])) /\ waitForResponseComplete)

\* the runtime of these runs provides EventSource
InitSend == Init /\ eventSourceDefined

SpecSend == InitSend /\ [][NextSend]_vars

SpecError == InitSend /\ [][NextError]_vars

\* A caller that registers a listener, starts a session, sends prompts and
\* calls cancel at any time.
NextCancel ==
  \/ (sessionsCreated + creating = 0 /\ onMessage("L1"))
  \/ (sessionsCreated + creating = 0 /\ startSession)
  \/ createSessionReturns(FALSE)
  \/ (currentSessionId # Null /\ sendPrompt)
  \/ \E s \in 1..MaxSends : \E line \in StreamLines : onChunk(s, line)
  \/ \E s \in 1..MaxSends : streamEnds(s)
  \/ (currentSessionId # Null /\ cancel)
  \/ \E status \in {204, 404, 500} : abortSessionReturns(status)

SpecCancel == InitSend /\ [][NextCancel]_vars

Spec == Init /\ [][Next]_vars

\* respondToPermission(requestId, approved)
respondToPermission(approved) ==
  LET r == emit(Run(messageHandlers, uuidCount),
                PermissionResponse(Str("req"), approved))
  IN /\ messageHandlers' = r.handlers
     /\ last' = StepOn("respondToPermission", [bool |-> approved], r)
     /\ disposeRun' = 0
     /\ UNCHANGED disposed
     /\ UNCHANGED <<currentSessionId, eventUnsubscribe, responseComplete,
                    responseResolve, clientVars, envVars, observed, normVars,
                    splitVars, runtimeVars>>

\* the callbacks a caller registers: plain ones, one that registers L2 and
\* one that deregisters L2 while a message is being delivered
Registrable == Listeners \cup {AddingListener, RemovingListener}

\* Listeners that come and go, also during an emission: a caller that
\* registers and deregisters callbacks and answers permission requests.
NextEmit ==
  \/ \E l \in Registrable : onMessage(l)
  \/ \E l \in Registrable : offMessage(l)
  \/ \E approved \in BOOLEAN : respondToPermission(approved)

SpecEmit == Init /\ [][NextEmit]_vars


----------------------------------------------------------------------------
(* The normalizer and the chunk handler applied to generated inputs *)

FieldNames ==
  {"content", "text", "delta", "name", "toolName", "arguments", "args", "id",
   "callId", "result", "output", "description", "summary", "diff", "path",
   "data", "reason", "message", "payload", "error"}

\* the discriminators of the switch, their respellings, and one unknown
TypeSpellings ==
  {"text", "token", "content", "tool_call", "tool-call", "tool_result",
   "tool-result", "file_edit", "file-edit", "fs-edit", "fs_edit", "terminal",
   "terminal-output", "terminal_output", "permission_request",
   "permission-request", "error", "done", "complete", "finished", "other"}

\* a property holds either the empty string or a text that names the property
fieldText(k) == Str(k \o "!")

RECURSIVE SubsetsUpTo(_, _)
SubsetsUpTo(S, k) ==
  IF k = 0 THEN {{}}
  ELSE LET smaller == SubsetsUpTo(S, k - 1)
       IN smaller \cup {T \cup {x} : T \in smaller, x \in S}

\* the properties S, those in T non-empty
fieldsOf(S, T) == [k \in S |-> IF k \in T THEN fieldText(k) ELSE Str("")]

\* "" stands for a record that has no type
TypeChoices == TypeSpellings \cup {""}

\* the record of type t with the properties S, those in T non-empty
MakeRecord(t, S, T) ==
  IF t = "" THEN Obj(fieldsOf(S, T))
  ELSE Obj(("type" :> Str(t)) @@ fieldsOf(S, T))

RecordInput(data) == [kind |-> "record", data |-> data]
LineInput(chunk) == [kind |-> "line", chunk |-> chunk]

\* inputs of the runs that hand over several inputs in a row
SequenceInputs ==
  {RecordInput(Obj([type |-> Str("tool_call")])),
   RecordInput(Obj([type |-> Str("tool-call"), name |-> Str("ls")])),
   RecordInput(Obj([type |-> Str("tool_call"), id |-> Str("given")])),
   RecordInput(Obj([type |-> Str("permission_request")])),
   LineInput(ToolCallLine), LineInput(PlainLine), LineInput(SpacesLine)}

\* one record, one line, or a short sequence of inputs
IsNormInput(q) ==
  \/ \E S \in SubsetsUpTo(FieldNames, MaxFields) :
       \E T \in SUBSET S : \E t \in TypeChoices :
         q = <<RecordInput(MakeRecord(t, S, T))>>
  \/ \E c \in Lines : q = <<LineInput(c)>>
  \/ \E n \in 2..MaxCalls : \E qs \in [1..n -> SequenceInputs] : q = qs

NormHandlers == {<<>>, <<"L1", "L2">>}

InitNorm ==
  /\ messageHandlers \in NormHandlers
  /\ currentSessionId = Null
  /\ eventUnsubscribe = 0
  /\ responseComplete = 0
  /\ responseResolve = 0
  /\ eventSource = FALSE
  /\ eventHandlers = <<>>
  /\ uuidCount = 0
  /\ sessionsCreated = 0
  /\ creating = 0
  /\ aborting = 0
  /\ sends = <<>>
  /\ settled = {}
  /\ waiter = NoWaiter
  /\ last = Step("new", Run(<<>>, 0))
  /\ observed = NothingObserved
  /\ disposeRun = 0
  /\ disposed = FALSE
  /\ buffer = <<>>
  /\ reading = NothingRead
  /\ eventSourceDefined = TRUE
  /\ opens = 0
  /\ closures = <<>>
  /\ IsNormInput(queue)
  \* records are normalized with listeners registered, lines also without
  /\ (messageHandlers = <<>>) => (Head(queue).kind = "line")
  /\ processed = <<>>

\* what was handed over, the state it met, and what the run produced
Handed(input, r) ==
  [in |-> input, handlers |-> messageHandlers, uuids |-> uuidCount,
   emitted |-> r.emitted, delivered |-> r.delivered, threw |-> r.threw]

HandOver(op, r) ==
  /\ processed' = Append(processed, Handed(Head(queue), r))
  /\ queue' = Tail(queue)
  /\ messageHandlers' = r.handlers
  /\ uuidCount' = r.uuids
  /\ last' = Step(op, r)
  /\ UNCHANGED <<currentSessionId, eventUnsubscribe, responseComplete,
                 responseResolve, clientVars, sessionsCreated, creating,
                 aborting, sends, settled, waiter, observed, disposeRun,
                 disposed, splitVars, runtimeVars>>

\* processOpenCodeData(data) on the next record
Normalize ==
  /\ queue # <<>>
  /\ Head(queue).kind = "record"
  /\ HandOver("processOpenCodeData",
              processOpenCodeData(Run(messageHandlers, uuidCount), Head(queue).data))

\* handleStreamChunk(chunk) on the next line
Chunk ==
  /\ queue # <<>>
  /\ Head(queue).kind = "line"
  /\ HandOver("handleStreamChunk",
              handleStreamChunk(Run(messageHandlers, uuidCount), Head(queue).chunk))

NextNorm == Normalize \/ Chunk

SpecNorm == InitNorm /\ [][NextNorm]_vars

----------------------------------------------------------------------------
(* OpenCodeClient called directly: connectToEvents, the closures it        *)
(* returns, disconnect (SpecClient)                                        *)

\* the callbacks the callers subscribe
Callbacks == 1..MaxCallbacks

\* client.connectToEvents(onEvent); the caller keeps the closure returned:
\* each call returns a new closure over onEvent
subscribeEvents(onEvent) ==
  /\ Len(closures) < MaxClosures
  /\ (~eventSource /\ eventSourceDefined) => opens < MaxOpens
  /\ LET c == connectToEvents([source |-> eventSource, handlers |-> eventHandlers],
                              onEvent)
     IN /\ eventSource' = c.source
        /\ eventHandlers' = c.handlers
        /\ opens' = IF c.opened THEN opens + 1 ELSE opens
  /\ closures' = Append(closures, [onEvent |-> onEvent, called |-> FALSE])
  /\ last' = StepOn("connectToEvents", Num(onEvent), Run(messageHandlers, uuidCount))
  /\ UNCHANGED <<backendVars, envVars, observed, disposeRun, disposed, normVars,
                 splitVars, eventSourceDefined>>

\* the k-th closure that connectToEvents returned is called (again or not)
unsubscribeEvents(k) ==
  /\ k \in DOMAIN closures
  /\ LET c == unsubscribe([source |-> eventSource, handlers |-> eventHandlers],
                          closures[k].onEvent)
     IN /\ eventSource' = c.source
        /\ eventHandlers' = c.handlers
  /\ closures' = [closures EXCEPT ![k].called = TRUE]
  /\ last' = StepOn("unsubscribe", Num(k), Run(messageHandlers, uuidCount))
  /\ UNCHANGED <<backendVars, envVars, observed, disposeRun, disposed, normVars,
                 splitVars, eventSourceDefined, opens>>

\* client.disconnect()
disconnectEvents ==
  /\ LET c == disconnect([source |-> eventSource, handlers |-> eventHandlers])
     IN /\ eventSource' = c.source
        /\ eventHandlers' = c.handlers
  /\ last' = Step("disconnect", Run(messageHandlers, uuidCount))
  /\ UNCHANGED <<backendVars, envVars, observed, disposeRun, disposed, normVars,
                 splitVars, runtimeVars>>

NextClient ==
  \/ \E onEvent \in Callbacks : subscribeEvents(onEvent)
  \/ \E k \in 1..MaxClosures : unsubscribeEvents(k)
  \/ disconnectEvents

SpecClient == Init /\ [][NextClient]_vars

----------------------------------------------------------------------------
(* OpenCodeClient.sendMessage reading a response stream (SpecSplit).  A    *)
(* text is the sequence of its characters; onChunk records its argument.   *)

\* the characters of the streams: two letters, a space and the newline
Chars == {"a", "b", " ", "\n"}
\* String.prototype.trim removes these from both ends
WhiteSpace == {" ", "\n"}

\* s.trim() is truthy: s has a character that is not white space
trimTruthy(s) == \E i \in DOMAIN s : s[i] \notin WhiteSpace

\* buffer.split('\n')
RECURSIVE split(_)
split(s) ==
  IF \A i \in DOMAIN s : s[i] # "\n" THEN <<s>>
  ELSE LET i == CHOOSE i \in DOMAIN s : s[i] = "\n" /\ \A j \in 1..(i - 1) : s[j] # "\n"
       IN <<SubSeq(s, 1, i - 1)>> \o split(SubSeq(s, i + 1, Len(s)))

\* a loop that keeps nothing of the text after the last newline
poppedDropped(lines) == <<>>
\* lines.pop() || ''
popped(lines) == lines[Len(lines)]

\* for (const line of lines) if (line.trim() && onChunk) onChunk(line)
calls(lines) == SelectSeq(lines, trimTruthy)

\* the text c as the network delivers it: cut after the positions in cuts
RECURSIVE chunked(_, _, _)
chunked(c, cuts, from) ==
  IF from > Len(c) THEN <<>>
  ELSE LET to == IF \E i \in cuts : i >= from
                 THEN CHOOSE i \in cuts : i >= from /\ \A j \in cuts : j >= from => i <= j
                 ELSE Len(c)
       IN <<SubSeq(c, from, to)>> \o chunked(c, cuts, to + 1)

\* a response body of up to MaxChars characters, in every division into chunks
InitSplit ==
  /\ messageHandlers = <<>>
  /\ currentSessionId = Null
  /\ eventUnsubscribe = 0
  /\ responseComplete = 0
  /\ responseResolve = 0
  /\ eventSource = FALSE
  /\ eventHandlers = <<>>
  /\ uuidCount = 0
  /\ sessionsCreated = 0
  /\ creating = 0
  /\ aborting = 0
  /\ sends = <<>>
  /\ settled = {}
  /\ waiter = NoWaiter
  /\ last = Step("new", Run(<<>>, 0))
  /\ observed = NothingObserved
  /\ disposeRun = 0
  /\ disposed = FALSE
  /\ eventSourceDefined = TRUE
  /\ opens = 0
  /\ closures = <<>>
  /\ \E n \in 0..MaxChars : \E c \in [1..n -> Chars] : \E cuts \in SUBSET (1..(n - 1)) :
       queue = chunked(c, cuts, 1)
  /\ processed = <<>>
  /\ buffer = <<>>
  /\ reading = NothingRead

\* reader.read() returns the next chunk: the loop body
read ==
  /\ ~reading.done
  /\ queue # <<>>
  /\ LET lines == split(buffer \o Head(queue))
     IN /\ buffer' = popped(lines)
        /\ processed' = processed \o calls(SubSeq(lines, 1, Len(lines) - 1))
  /\ queue' = Tail(queue)
  /\ reading' = [reading EXCEPT !.content = @ \o Head(queue), !.reads = @ + 1]
  /\ UNCHANGED <<backendVars, clientVars, envVars, last, observed, disposeRun,
                 disposed, runtimeVars>>

\* reader.read() returns done: the loop ends and the buffer is flushed
readDone ==
  /\ ~reading.done
  /\ queue = <<>>
  /\ processed' = processed \o calls(<<buffer>>)
  /\ reading' = [reading EXCEPT !.done = TRUE]
  /\ UNCHANGED <<backendVars, clientVars, envVars, last, observed, disposeRun,
                 disposed, runtimeVars, queue, buffer>>

NextSplit == read \/ readDone

SpecSplit == InitSplit /\ [][NextSplit]_vars

----------------------------------------------------------------------------
(* Claims about the reading of a response stream (SpecSplit) *)

\* the positions of the newlines of the text c, and the k-th of them
Newlines(c) == {i \in DOMAIN c : c[i] = "\n"}
NthNewline(c, k) ==
  IF k = 0 THEN 0
  ELSE CHOOSE i \in Newlines(c) : Cardinality({j \in Newlines(c) : j < i}) = k - 1

\* the newline-terminated lines of c, without their newlines, in order
CompleteLines(c) ==
  [k \in 1..Cardinality(Newlines(c)) |->
     SubSeq(c, NthNewline(c, k - 1) + 1, NthNewline(c, k) - 1)]

\* what follows the last newline of c
TrailingLine(c) == SubSeq(c, NthNewline(c, Cardinality(Newlines(c))) + 1, Len(c))

\* a line with a character other than the space
NotBlankLine(line) == \E i \in DOMAIN line : line[i] # " "

\* C11 as the specification states it: once the stream has ended, onChunk has
\* been called once for each newline-terminated line, in order, and once more
\* for the trailing partial line if that is not empty.
C11_AsClaimed ==
  reading.done =>
    processed = CompleteLines(reading.content)
                  \o (IF TrailingLine(reading.content) # <<>>
                      THEN <<TrailingLine(reading.content)>> ELSE <<>>)

\* C11: sendMessage calls onChunk once for each newline-terminated line that
\* is not blank, in arrival order, and at the end of the stream once for the
\* trailing partial line if that is not blank; blank lines are skipped.  The
\* calls depend on the text of the stream only, not on its division into
\* chunks, and no line is reordered, merged or split.
C11_Lines ==
  /\ ~reading.done =>
       processed = SelectSeq(CompleteLines(reading.content), NotBlankLine)
  /\ reading.done =>
       processed = SelectSeq(CompleteLines(reading.content)
                               \o <<TrailingLine(reading.content)>>, NotBlankLine)

C11_Witness ==
  /\ reading.done
  /\ reading.reads = 3
  /\ reading.content = <<"a", "\n", "\n", "b">>
  /\ processed = << <<"a">>, <<"b">> >>

----------------------------------------------------------------------------
(* Claims about the push connection (SpecClient) *)

\* C12 as the specification states it: the push connection is open exactly
\* when the subscriber set is not empty.
C12_AsClaimed == eventSource <=> eventHandlers # <<>>

\* C12: in a runtime that provides EventSource the client holds an open push
\* connection exactly when its subscriber set is not empty: the connection is
\* constructed by a subscriber that finds none held, never by a later one, and
\* is given up only by a call that leaves the subscriber set empty; in a
\* runtime without EventSource no connection is ever opened.
C12_Connection ==
  /\ [](IF eventSourceDefined
        THEN eventSource <=> eventHandlers # <<>>
        ELSE ~eventSource /\ opens = 0)
  /\ [][/\ opens' # opens =>
             (eventHandlers = <<>> /\ ~eventSource /\ eventSource'
                /\ opens' = opens + 1)
        /\ (eventSource /\ ~eventSource') => eventHandlers' = <<>>
        /\ (eventHandlers = <<>> /\ eventHandlers' # <<>> /\ eventSourceDefined)
             => opens' = opens + 1]_vars

C12_Witness ==
  /\ opens = 2
  /\ eventSource
  /\ Len(eventHandlers) = 2
  /\ last.op = "connectToEvents"

\* C25: a closure returned by connectToEvents affects only the subscription
\* it was returned for: called again after the same callback has been
\* subscribed anew, it neither removes that newer subscription nor closes the
\* push connection.
C25_AsClaimed ==
  [][\A k \in DOMAIN closures :
       (/\ last'.op = "unsubscribe"
        /\ last'.arg = Num(k)
        /\ closures[k].called
        /\ \E j \in DOMAIN closures :
             /\ j > k
             /\ closures[j].onEvent = closures[k].onEvent
             /\ ~closures[j].called
        /\ \E i \in DOMAIN eventHandlers : eventHandlers[i] = closures[k].onEvent)
       => /\ \E i \in DOMAIN eventHandlers' :
               eventHandlers'[i] = closures[k].onEvent
          /\ eventSource' = eventSource]_vars

----------------------------------------------------------------------------
(* Claims about prompts and waiting for their completion (SpecSend) *)

\* one delivery of message to each handler, in order
DeliveredToAll(handlers, message) ==
  [i \in 1..Len(handlers) |-> [to |-> handlers[i], msg |-> message]]

\* the latest send was made while no other was in flight, none was made while
\* it was, its stream delivered the Hi line and then the done line and ended,
\* and some listener received every message of it
HiThenDone ==
  /\ sends # <<>>
  /\ sends[Len(sends)].st = "done"
  /\ sends[Len(sends)].solo
  /\ observed.got = <<HiLine, DoneLine>>
  /\ observed.heard # {}

\* waitForResponseComplete was called after the latest send had returned
WaitedAfterwards ==
  /\ waiter.st # "none"
  /\ waiter.sent = Len(sends)
  /\ waiter.idle

\* C1 as the specification states it: the listener observes status(running),
\* model-output "Hi" and status(idle), in that order and nothing else.
C1_AsClaimed ==
  HiThenDone =>
    observed.log = <<StatusMsg("running"), ModelOutput(Str("Hi")), StatusMsg("idle")>>

\* C1: a prompt whose stream is the line {"type":"text","content":"Hi"} and
\* then the line {"type":"done"} makes a registered listener observe
\* status(running), model-output "Hi", status(idle) for the done line and
\* status(idle) again for the end of the stream, in that order; a
\* waitForResponseComplete called afterwards resolves.
C1_EndToEnd ==
  HiThenDone =>
    /\ observed.log = <<StatusMsg("running"), ModelOutput(Str("Hi")),
                        StatusMsg("idle"), StatusMsg("idle")>>
    /\ WaitedAfterwards => waiter.st = "resolved"

C1_Witness ==
  /\ HiThenDone
  /\ observed.heard = Listeners
  /\ WaitedAfterwards
  /\ waiter.st = "resolved"
  /\ waiter.p = Len(sends)

\* C3: waitForResponseComplete called while no send is in flight, before any
\* send was made or after every send made so far has returned, resolves at
\* once: it does not wait and it does not time out.
C3_ResolvesAtOnce ==
  (waiter.st # "none" /\ waiter.idle /\ waiter.clean) => waiter.st = "resolved"

C3_Witness ==
  /\ last.op = "waitForResponseComplete"
  /\ waiter.st = "resolved"
  /\ waiter.idle
  /\ waiter.clean
  /\ waiter.sent = MaxSends
  /\ waiter.p = MaxSends

\* C4: waitForResponseComplete called while the promise of the send in flight
\* is unresolved does not resolve before sendPrompt has resolved that promise,
\* and resolves as soon as it has; the timer firing fails the call and changes
\* nothing of the send or of its promise, so that a call made after the stream
\* has finished resolves.
C4_Timeout ==
  /\ [](/\ (waiter.st = "resolved" /\ waiter.p # 0) => waiter.p \in settled
        /\ waiter.st = "waiting" => waiter.p \notin settled
        /\ (waiter.st # "timeout" /\ waiter.lapsed # 0 /\ waiter.p = waiter.lapsed
              /\ waiter.p \in settled) => waiter.st = "resolved")
  /\ [][(waiter.st = "waiting" /\ waiter'.st = "timeout"
            /\ sends[waiter.p].st = "stream") =>
          /\ waiter.p \notin settled
          /\ UNCHANGED <<sends, settled, responseComplete, responseResolve,
                         messageHandlers, observed>>
          /\ last'.emitted = <<>>]_vars

C4_Witness ==
  /\ last.op = "waitForResponseComplete"
  /\ waiter.st = "resolved"
  /\ waiter.lapsed = waiter.p
  /\ waiter.p \in settled
  /\ sends[waiter.p].st = "done"

\* C13 as the specification states it: once a send has returned and none is
\* in flight, the adapter holds no pending response: neither the promise nor
\* its resolver.
C13_AsClaimed ==
  (/\ sends # <<>>
   /\ sends[Len(sends)].st = "done"
   /\ \A i \in DOMAIN sends : ~InFlight(sends[i])) =>
     (responseComplete = 0 /\ responseResolve = 0)

\* C14 as the specification states it: a promise is resolved only once the
\* stream of the send that created it has ended, and a waitForResponseComplete
\* that races the promise of the latest send is not resolved while the stream
\* of that send is being read.
C14_AsClaimed ==
  /\ \A p \in settled : sends[p].st = "done"
  /\ (waiter.st = "resolved" /\ waiter.p # 0) => ~InFlight(sends[waiter.p])

\* C23: a send that fails because sendMessage fails leaves no unresolved
\* promise behind: waitForResponseComplete called after the latest send has
\* failed, with no send in flight, resolves and does not wait for its timer.
C23_AsClaimed ==
  (/\ waiter.st # "none"
   /\ waiter.idle
   /\ waiter.sent > 0
   /\ sends[waiter.sent].st = "failed") => waiter.st = "resolved"

----------------------------------------------------------------------------
(* Claims about error lines and error events (SpecError) *)

\* the detail of an error record: its message, else its error, else the
\* default text
DetailOfLine(line) ==
  CASE line = ErrorLine -> Str("boom")
    [] line = ErrorFieldLine -> Str("bad")
    [] line = BareErrorLine -> Str("Unknown error")

\* C16: a stream line or a push event of type error is handed to every
\* listener as one status(error) message whose detail is the record's message,
\* else its error, else "Unknown error", and nothing is thrown; no send fails;
\* a send whose stream delivered error lines has emitted status(running), the
\* status(error) of each line and status(idle), and its promise is resolved,
\* also when an earlier send received error lines; a wait that follows resolves.
C16_ErrorLine ==
  /\ last.op \in {"onChunk", "push-error"} =>
       /\ ~last.threw
       /\ last.emitted = <<StatusError(DetailOfLine(last.arg.str))>>
       /\ last.delivered =
            DeliveredToAll(messageHandlers, StatusError(DetailOfLine(last.arg.str)))
  /\ \A i \in DOMAIN sends : sends[i].st # "failed"
  /\ (sends # <<>> /\ sends[Len(sends)].st = "done" /\ sends[Len(sends)].solo) =>
       /\ observed.log =
            <<StatusMsg("running")>>
              \o [i \in DOMAIN observed.got |-> StatusError(DetailOfLine(observed.got[i]))]
              \o <<StatusMsg("idle")>>
       /\ Len(sends) \in settled
       /\ (waiter.st # "none" /\ waiter.sent = Len(sends)) => waiter.st = "resolved"

C16_Witness ==
  /\ Len(sends) = 2
  /\ sends[1].st = "done"
  /\ sends[1].lines >= 1
  /\ sends[2].st = "done"
  /\ sends[2].solo
  /\ observed.got = <<ErrorFieldLine, BareErrorLine>>
  /\ observed.heard = {"L1"}
  /\ waiter.st = "resolved"
  /\ waiter.sent = 2
  /\ last.op = "push-error"
  /\ Len(last.delivered) = 1

----------------------------------------------------------------------------
(* Claims about cancel during a send (SpecCancel) *)

\* the message of a line of StreamLines
MessageOfLine(line) ==
  IF line = HiLine THEN ModelOutput(Str("Hi")) ELSE StatusMsg("idle")

\* C20: cancel, when it is called and when its abort request is answered,
\* changes nothing of the sends, of the promise and its resolver, or of what a
\* send has got and emitted; a line that arrives is normalized and handed to
\* every listener whether or not cancel was called; a send that overlaps no
\* other keeps its promise unresolved and in place while its stream is open,
\* and emits its own status(idle) and resolves the promise when the stream ends.
C20_Cancel ==
  /\ [](/\ last.op = "onChunk" =>
             last.delivered = DeliveredToAll(messageHandlers, MessageOfLine(last.arg.str))
        /\ (sends # <<>> /\ sends[Len(sends)].solo) =>
             IF InFlight(sends[Len(sends)])
             THEN /\ Len(sends) \notin settled
                  /\ responseComplete = Len(sends)
                  /\ responseResolve = Len(sends)
                  /\ observed.log =
                       <<StatusMsg("running")>>
                         \o [i \in DOMAIN observed.got |-> MessageOfLine(observed.got[i])]
             ELSE /\ Len(sends) \in settled
                  /\ observed.log =
                       <<StatusMsg("running")>>
                         \o [i \in DOMAIN observed.got |-> MessageOfLine(observed.got[i])]
                         \o <<StatusMsg("idle")>>)
  /\ [][last'.op \in {"cancel", "cancel-returns"} =>
          /\ UNCHANGED <<sends, responseComplete, responseResolve, settled, waiter>>
          /\ observed'.got = observed.got
          /\ observed'.log = observed.log]_vars

C20_Witness ==
  /\ sends # <<>>
  /\ sends[Len(sends)].st = "done"
  /\ sends[Len(sends)].solo
  /\ observed.cancelAt = 1
  /\ observed.got = <<HiLine, HiLine>>
  /\ observed.heard = {"L1"}
  /\ aborting = 0
  /\ Len(sends) \in settled

----------------------------------------------------------------------------
(* Claims about push events, cancel and dispose (Spec) *)

C5_Cancel ==
  /\ last.op = "cancel" => last.emitted = <<>>
  /\ last.op = "cancel-returns" =>
       IF last.arg \in {Num(200), Num(204), Num(404)}
       THEN /\ ~last.threw
            /\ last.emitted = <<StatusMsg("idle")>>
            /\ last.delivered = DeliveredToAll(messageHandlers, StatusMsg("idle"))
       ELSE last.threw /\ last.emitted = <<>> /\ last.delivered = <<>>

C5_Witness ==
  /\ last.op = "cancel-returns"
  /\ last.arg = Num(404)
  /\ Len(last.delivered) = 2

\* C6: a dispose that follows a dispose does not fail and changes nothing: the
\* push callback stays absent, the push connection closed, the subscriber set
\* and the listener set empty; it only emits status(stopped) again.
C6_DisposeTwice ==
  [][(disposeRun >= 1 /\ disposeRun' = 2) =>
       /\ ~last'.threw
       /\ last'.emitted = <<StatusMsg("stopped")>>
       /\ UNCHANGED <<currentSessionId, eventUnsubscribe, eventSource,
                      eventHandlers, messageHandlers, responseComplete,
                      responseResolve>>
       /\ eventUnsubscribe = 0 /\ ~eventSource /\ eventHandlers = <<>>
       /\ messageHandlers = <<>>]_vars

C6_Witness ==
  /\ disposeRun = 2
  /\ last.op = "dispose"
  /\ sessionsCreated >= 1

\* C7 as the specification states it: the dispose makes every listener that
\* is registered when it is called observe status(stopped).
C7_AsClaimed ==
  [][last'.op = "dispose" /\ disposeRun' = 1 =>
       \A i \in DOMAIN messageHandlers :
         \E j \in DOMAIN last'.delivered :
           last'.delivered[j] = [to |-> messageHandlers[i], msg |-> StatusMsg("stopped")]]_vars

\* C15 as the specification states it: once dispose has been called, no
\* listener is handed a message other than status(stopped).
C15_AsClaimed ==
  disposed =>
    \A i \in DOMAIN last.delivered : last.delivered[i].msg = StatusMsg("stopped")

\* C19: startSession emits nothing before createSession has answered; when
\* it emits status(running), to every listener once, the session id is stored,
\* the callback subscribed and its closure kept, and the push connection open
\* where the runtime provides one; if createSession fails, startSession fails,
\* emits nothing and changes nothing of the adapter or of the client.
C19_Start ==
  /\ [](/\ last.op = "startSession" => last.emitted = <<>>
        /\ last.op = "startSession-created" =>
             /\ last.emitted = <<StatusMsg("running")>>
             /\ last.delivered = DeliveredToAll(messageHandlers, StatusMsg("running"))
             /\ currentSessionId = sessionIdOf(sessionsCreated)
             /\ eventUnsubscribe = sessionsCreated
             /\ \E i \in DOMAIN eventHandlers : eventHandlers[i] = sessionsCreated
             /\ eventSource = eventSourceDefined)
  /\ [][last'.op = "startSession-failed" =>
          /\ last'.threw
          /\ last'.emitted = <<>>
          /\ UNCHANGED <<backendVars, clientVars, opens, sessionsCreated, sends,
                         settled>>]_vars

C19_Witness ==
  /\ last.op = "startSession-created"
  /\ sessionsCreated = 1
  /\ Len(last.delivered) = 2
  /\ eventSource
  /\ eventHandlers = <<1>>

\* C24: whatever sequence of startSession calls was made, the adapter has at
\* most one push subscription registered with the client, and a push event
\* for the current session is delivered to each listener at most once.
C24_AsClaimed ==
  /\ Len(eventHandlers) <= 1
  /\ last.op = "push" =>
       \A l \in Listeners :
         Cardinality({k \in DOMAIN last.delivered : last.delivered[k].to = l}) <= 1

----------------------------------------------------------------------------
(* Claims about the chunk handler and the normalizer (SpecNorm) *)

\* C8: a stream line that is not valid JSON yields exactly one model-output
\* message carrying the line verbatim if the line is non-blank (delivered once
\* to every registered listener), and no message at all if it is blank.
C8_NonJsonLine ==
  \A i \in DOMAIN processed :
    LET h == processed[i] IN
      (h.in.kind = "line" /\ h.in.chunk \in TextLines \cup BlankLines) =>
        /\ ~h.threw
        /\ h.in.chunk \in TextLines =>
             /\ h.emitted = <<ModelOutput(Str(h.in.chunk))>>
             /\ h.delivered = DeliveredToAll(h.handlers, ModelOutput(Str(h.in.chunk)))
        /\ h.in.chunk \in BlankLines =>
             /\ h.emitted = <<>>
             /\ h.delivered = <<>>

\* a blank line was dropped and then a padded text line was delivered as it is
C8_Witness ==
  /\ Len(processed) = 2
  /\ processed[1].in = LineInput(SpacesLine)
  /\ processed[1].emitted = <<>>
  /\ processed[2].in = LineInput(PlainLine)
  /\ processed[2].delivered =
       <<[to |-> "L1", msg |-> ModelOutput(Str(PlainLine))],
         [to |-> "L2", msg |-> ModelOutput(Str(PlainLine))]>>

\* the type of a record spelled the other way (underscore for hyphen and back)
Respelled(t) ==
  CASE t = "tool_call" -> "tool-call"
    [] t = "tool-call" -> "tool_call"
    [] t = "tool_result" -> "tool-result"
    [] t = "tool-result" -> "tool_result"
    [] t = "file_edit" -> "file-edit"
    [] t = "file-edit" -> "file_edit"
    [] t = "fs-edit" -> "fs_edit"
    [] t = "fs_edit" -> "fs-edit"
    [] t = "terminal-output" -> "terminal_output"
    [] t = "terminal_output" -> "terminal-output"
    [] t = "permission_request" -> "permission-request"
    [] t = "permission-request" -> "permission_request"
    [] OTHER -> t

HasType(data, T) ==
  /\ "obj" \in DOMAIN data
  /\ "type" \in DOMAIN data.obj
  /\ \E t \in T : data.obj["type"] = Str(t)

TypeOf(data) == data.obj["type"].str

RespelledRecord(data) ==
  Obj([data.obj EXCEPT !["type"] = Str(Respelled(TypeOf(data)))])

\* what the normalizer emits for data in the state that h met
EmittedFor(h, data) ==
  processOpenCodeData(Run(h.handlers, h.uuids), data).emitted

FamilySpellings ==
  {"tool_call", "tool-call", "tool_result", "tool-result", "file_edit",
   "file-edit", "fs-edit", "fs_edit", "terminal-output", "terminal_output",
   "permission_request", "permission-request"}

\* the families of which the switch lists both spellings
BothSpellings ==
  {"tool_call", "tool-call", "tool_result", "tool-result",
   "permission_request", "permission-request"}

\* C9 as claimed: in every family, a record and its respelling normalize to
\* the same message, field for field.
C9_AsClaimed ==
  \A i \in DOMAIN processed :
    LET h == processed[i] IN
      (h.in.kind = "record" /\ HasType(h.in.data, FamilySpellings)) =>
        EmittedFor(h, RespelledRecord(h.in.data)) = h.emitted

\* the fields of a message that do not hold the input record itself
WithoutDefaultedPayload(m, data) ==
  IF m.type = "permission-request" /\ ~Truthy(Prop(data, "payload"))
  THEN [m EXCEPT !.payload = Undefined]
  ELSE m

\* C9 amended: for tool_call/tool-call, tool_result/tool-result and
\* permission_request/permission-request a record and its respelling
\* normalize to one message of the same variant with the same field values,
\* but for a payload that defaulted to the input record (which holds the
\* spelling); file-edit, fs_edit and terminal_output are not discriminators.
C9_Respelling ==
  \A i \in DOMAIN processed :
    LET h == processed[i] IN
      (h.in.kind = "record" /\ HasType(h.in.data, BothSpellings)) =>
        LET other == EmittedFor(h, RespelledRecord(h.in.data)) IN
          /\ Len(h.emitted) = 1
          /\ Len(other) = 1
          /\ WithoutDefaultedPayload(other[1], h.in.data)
               = WithoutDefaultedPayload(h.emitted[1], h.in.data)

\* a hyphenated tool call with an aliased name was normalized
C9_Witness ==
  /\ Len(processed) = 1
  /\ processed[1].in.kind = "record"
  /\ HasType(processed[1].in.data, {"tool-call"})
  /\ processed[1].emitted =
       <<ToolCall(fieldText("toolName"), Obj(<<>>), fieldText("callId"))>>

\* the inputs of the claim: tool calls that have neither id nor callId
IdlessToolCall(h) ==
  /\ h.in.kind = "record"
  /\ HasType(h.in.data, {"tool_call", "tool-call"})
  /\ DOMAIN h.in.data.obj \cap {"id", "callId"} = {}

\* C10: every tool call that has neither id nor callId is emitted as a
\* tool-call message whose callId is a non-empty string, and no two such
\* messages of one run carry the same callId.
C10_FreshCallId ==
  /\ \A i \in DOMAIN processed :
       IdlessToolCall(processed[i]) =>
         /\ Len(processed[i].emitted) = 1
         /\ processed[i].emitted[1].type = "tool-call"
         /\ "str" \in DOMAIN processed[i].emitted[1].callId
         /\ processed[i].emitted[1].callId # Str("")
  /\ \A i, j \in DOMAIN processed :
       (i < j /\ IdlessToolCall(processed[i]) /\ IdlessToolCall(processed[j])) =>
         processed[i].emitted[1].callId # processed[j].emitted[1].callId

\* two tool calls without identifiers were normalized in a row
C10_Witness ==
  /\ Len(processed) = 2
  /\ IdlessToolCall(processed[1])
  /\ IdlessToolCall(processed[2])
  /\ processed[1].emitted[1].callId = randomUUID(1)
  /\ processed[2].emitted[1].callId = randomUUID(2)

\* the discriminators the normalizer recognizes
Recognized ==
  {"text", "token", "content", "tool_call", "tool-call", "tool_result",
   "tool-result", "file_edit", "fs-edit", "terminal", "terminal-output",
   "permission_request", "permission-request", "error", "done", "complete",
   "finished"}

\* the records handed to the normalizer, each with what it produced
RecordsHanded == {i \in DOMAIN processed : processed[i].in.kind = "record"}

\* the record has the property k
Has(data, k) == k \in DOMAIN data.obj

\* C17 as the specification states it: a record whose type is absent or not
\* recognized yields exactly one model-output message if it has a text or a
\* content property, and nothing otherwise; no record yields two messages.
C17_AsClaimed ==
  \A i \in RecordsHanded :
    LET h == processed[i]
        data == h.in.data
    IN /\ Len(h.emitted) <= 1
       /\ ~HasType(data, Recognized) =>
            IF Has(data, "text") \/ Has(data, "content")
            THEN Len(h.emitted) = 1 /\ h.emitted[1].type = "model-output"
            ELSE h.emitted = <<>>

\* C17: a record whose type is absent or not recognized yields exactly one
\* model-output message if its text or its content is non-empty (truthy), the
\* message carrying the text if that is non-empty and the content otherwise;
\* it yields nothing if neither is, also when the property is present and
\* empty.  No record of any type yields more than one message.
C17_Default ==
  \A i \in RecordsHanded :
    LET h == processed[i]
        data == h.in.data
        text == IF Has(data, "text") THEN data.obj["text"] ELSE Undefined
        content == IF Has(data, "content") THEN data.obj["content"] ELSE Undefined
    IN /\ Len(h.emitted) <= 1
       /\ ~h.threw
       /\ ~HasType(data, Recognized) =>
            h.emitted = IF text \notin {Undefined, Str("")} THEN <<ModelOutput(text)>>
                        ELSE IF content \notin {Undefined, Str("")}
                             THEN <<ModelOutput(content)>>
                        ELSE <<>>

C17_Witness ==
  \E i \in RecordsHanded :
    /\ processed[i].in.data =
         Obj([type |-> Str("other"), text |-> Str(""), content |-> Str("content!")])
    /\ processed[i].emitted = <<ModelOutput(Str("content!"))>>
    /\ Len(processed[i].delivered) = 2

\* the value of the first of the keys that the record has, else the default
FirstPresent(data, keys, default) ==
  IF \E i \in DOMAIN keys : Has(data, keys[i])
  THEN data.obj[keys[CHOOSE i \in DOMAIN keys :
                       Has(data, keys[i]) /\ \A j \in 1..(i - 1) : ~Has(data, keys[j])]]
  ELSE default

\* C18 as the specification states it: every aliased field of the emitted
\* message is the value of the first alias that the record has, an empty
\* value included, and the default only if the record has none of the aliases.
C18_AsClaimed ==
  \A i \in RecordsHanded :
    LET h == processed[i]
        data == h.in.data
        m == h.emitted[1]
    IN (HasType(data, Recognized) /\ Len(h.emitted) = 1) =>
         CASE m.type = "model-output" ->
                m.textDelta = FirstPresent(data, <<"content", "text", "delta">>, Undefined)
           [] m.type = "tool-call" ->
                /\ m.toolName = FirstPresent(data, <<"name", "toolName">>, Str("unknown"))
                /\ m.args = FirstPresent(data, <<"arguments", "args">>, Obj(<<>>))
                /\ m.callId = FirstPresent(data, <<"id", "callId">>, m.callId)
           [] m.type = "tool-result" ->
                /\ m.toolName = FirstPresent(data, <<"name", "toolName">>, Str("unknown"))
                /\ m.result = FirstPresent(data, <<"result", "output">>, Undefined)
                /\ m.callId = FirstPresent(data, <<"id", "callId">>, Str(""))
           [] m.type = "fs-edit" ->
                m.description = FirstPresent(data, <<"description", "summary">>, Str(""))
           [] m.type = "terminal-output" ->
                m.data = FirstPresent(data, <<"output", "data">>, Str(""))
           [] m.type = "permission-request" ->
                m.reason = FirstPresent(data, <<"reason", "message">>, Str(""))
           [] m.type = "status" ->
                (m.status = "error") =>
                  m.detail = FirstPresent(data, <<"message", "error">>, Str("Unknown error"))

----------------------------------------------------------------------------
(* Claims about listeners that change during an emission (SpecEmit) *)

\* C21: an emitted message is delivered to exactly the listeners registered
\* when the emission began, once each in registration order: a listener added
\* during the emission does not receive that message, and a listener removed
\* during the emission still receives it.
C21_AsClaimed ==
  [][last'.op = "respondToPermission" =>
       last'.delivered = DeliveredToAll(messageHandlers, last'.emitted[1])]_vars

----------------------------------------------------------------------------
(* Further claims about the chunk handler and the normalizer (SpecNorm) *)

\* C22: a received line is emitted verbatim as a model-output message only
\* when it fails JSON parsing: for a line that parses, no message carrying the
\* raw line is emitted.
C22_AsClaimed ==
  \A i \in DOMAIN processed :
    LET h == processed[i] IN
      (h.in.kind = "line" /\ JSONparse(h.in.chunk).ok) =>
        \A k \in DOMAIN h.emitted : h.emitted[k] # ModelOutput(Str(h.in.chunk))

\* C26: every model-output message delivered to a listener carries a defined
\* text as textDelta, whatever record or line was handed over, a record of
\* type text, token or content without content, text and delta included.
C26_AsClaimed ==
  \A i \in DOMAIN processed :
    \A k \in DOMAIN processed[i].delivered :
      LET m == processed[i].delivered[k].msg IN
        m.type = "model-output" => m.textDelta # Undefined

====
